---- MODULE Spec2Model ----
(***************************************************************************)
(* imapCleanup: a local SQLite mirror of the metadata of one remote IMAP   *)
(* folder ([Gmail]/All Mail), a sync run (fetch.py: fetch_all) that fills  *)
(* it, and a deletion run (delete.py: delete_emails) that removes messages *)
(* remotely and tombstones them locally.                                   *)
(*                                                                         *)
(* Spec      : the program: sync runs and deletion runs executed one after *)
(*             another against a remote folder that gains and loses        *)
(*             messages between runs.                                      *)
(* StoreSpec : the store layer (db.py) under any sequence of calls.        *)
(* ChunkSpec : fetch_headers_batch (imap_client.py) run to exhaustion on   *)
(*             any list and batch size.                                    *)
(* ClientSpec: the client's pure steps (imap_client.py): search_all,       *)
(*             search_since_uid and _parse_fetch_response on any reply.    *)
(* NormSpec  : the records of one response through parse_headers and       *)
(*             insert_emails_batch (fetch.py, db.py).                      *)
(* LiveSpec  : one sync or deletion run from any store and folder, with    *)
(*             fairness on its steps, for termination.                     *)
(***************************************************************************)
EXTENDS Integers, Sequences, FiniteSets, TLC

\* ------------------------------------------------------------------ bounds
\* Largest uid the remote folder ever assigns.
MaxUid == 2
\* Largest batch size a run is started with.
MaxBatchSize == 2

UIDs == 1..MaxUid
BatchSizes == 1..MaxBatchSize
\* Header contents of a message; "a" is what the remote folder serves.
Data == {"a", "b"}

VARIABLES
    \* ---- remote folder (the IMAP server's [Gmail]/All Mail)
    remote,          \* uids the remote listing reports
    srv_uidnext,     \* UIDNEXT: the uid the next message gets
    seen,            \* uids whose message carries the flag \Seen
    \* ---- local store (db.py)
    emails,          \* table emails: uid -> header data
    deleted_uids,    \* table deleted_uids
    last_uid,        \* sync_state.last_uid (last_sync and total_messages are
                     \* written with it and read by nothing but cmd_stats)
    \* ---- session (imap_client.py: GmailIMAPClient)
    conn,            \* self._conn: "none" | "open"
    selected,        \* folder selection: "none" | "ro" | "rw"
    \* ---- the running command and its locals
    pc,              \* position of the run
    kind,            \* "none" | "sync" | "delete" | "store"
    incremental,     \* fetch_all(incremental=...)
    batch_size,      \* batch_size of the run
    uids,            \* fetch_all: uids to fetch; delete_emails: uids to delete
    i,               \* offset of the next chunk (the range() variable)
    batch_emails,    \* fetch_all: parsed records not yet inserted
    fetched,         \* fetch_all: records parsed
    stats,           \* the run's counters
    outcome,         \* "none" | "running" | "returned" | "raised" | "interrupted"
    \* ---- observation of the run
    requests,        \* sync: the chunks requested so far, in order
    failed,          \* sync: the chunks whose retrieval request failed
    lb,              \* delete: the last batch and the remote commands it issued
    args,            \* delete: the command line and the confirmation typed
    run,             \* sync: the store and cursor the run started from, the
                     \* uids it parsed a record for, its cursor updates
    prev,            \* the sync run directly before this sync run, while
                     \* nothing has changed since it ended
    call,            \* StoreSpec: the last store call, the uids given, the result
    ret_true,        \* StoreSpec: the uids insert_email has returned True for
    pauses,          \* the pauses between chunks: for each, the number of
                     \* chunks handled before it
    client,          \* ClientSpec: the last client method called on a server
                     \* reply, the reply, the argument, the result
    norm             \* NormSpec: the records of one response on their way
                     \* through parse_headers and insert_emails_batch

srvVars  == <<remote, srv_uidnext, seen>>
dbVars   == <<emails, deleted_uids, last_uid>>
sessVars == <<conn, selected>>
locVars  == <<kind, incremental, batch_size, uids, i, batch_emails, fetched,
              stats, outcome>>
obsVars  == <<requests, failed, lb, args, run, prev, call, ret_true, pauses,
              client, norm>>
vars     == <<srvVars, dbVars, sessVars, pc, locVars, obsVars>>

\* ----------------------------------------------------------------- helpers
Range(s) == {s[k] : k \in 1..Len(s)}
MinOf(S) == CHOOSE x \in S : \A y \in S : x <= y
MaxOf(S) == CHOOSE x \in S : \A y \in S : x >= y
Larger(a, b) == IF a >= b THEN a ELSE b
Smaller(a, b) == IF a <= b THEN a ELSE b

RECURSIVE SortedSeq(_)
SortedSeq(S) ==
    IF S = {} THEN <<>>
    ELSE LET m == MinOf(S) IN <<m>> \o SortedSeq(S \ {m})


\* ------------------------------------------------------- db.py: the store
\* A record as parse_headers returns it, reduced to its key and its content.
Rec(u, d) == [uid |-> u, data |-> d]

\* The table emails is a function on UIDs; NoRow marks a uid that has no row.
NoRow == "-"
NoEmails == [u \in UIDs |-> NoRow]
Stored(em) == {u \in UIDs : em[u] # NoRow}

\* Mutated forms of the store operations below: an insert that stores
\* nothing, an insert that always reports a new row, a mark_deleted that
\* leaves the rows in place.
insert_email_stores_nothing(em, rec) == em
insert_email_ret_always(em, rec) == TRUE
mark_deleted_emails_keeps_rows(em, us) == em

\* insert_email: INSERT OR IGNORE on the primary key uid.
insert_email(em, rec) ==
    IF em[rec.uid] # NoRow THEN em
    ELSE [em EXCEPT ![rec.uid] = rec.data]

\* insert_email's return value: cursor.rowcount > 0.
insert_email_ret(em, rec) == em[rec.uid] = NoRow

\* insert_emails_batch: insert_email over the list, counting the True results.
RECURSIVE insert_emails_batch(_, _)
insert_emails_batch(em, recs) ==
    IF recs = <<>> THEN [emails |-> em, inserted |-> 0]
    ELSE LET r    == Head(recs)
             rest == insert_emails_batch(insert_email(em, r), Tail(recs))
         IN  [emails   |-> rest.emails,
              inserted |-> rest.inserted + (IF insert_email_ret(em, r) THEN 1 ELSE 0)]

\* A mutated update_sync_state whose UPDATE changes no row.
update_sync_state_keeps_old(old_last_uid, new_last_uid) == old_last_uid

\* update_sync_state: UPDATE sync_state SET last_uid = ? WHERE id = 1, on the
\* singleton row, whatever it held.
update_sync_state(old_last_uid, new_last_uid) == new_last_uid

\* mark_deleted: INSERT OR IGNORE INTO deleted_uids ...
mark_deleted_tombstones(del, us) == del \cup Range(us)

\* ... and DELETE FROM emails WHERE uid = ?, for every uid of the list.
mark_deleted_emails(em, us) ==
    [u \in UIDs |-> IF u \in Range(us) THEN NoRow ELSE em[u]]

\* get_deleted_uids: SELECT uid FROM deleted_uids.
get_deleted_uids(del) == del

\* ------------------------------------------- imap_client.py: enumeration
\* The replies a server can give to UID SEARCH ALL on a folder: its uids, each
\* once, in an order the server chooses.
search_reply(folder) ==
    {s \in [1..Cardinality(folder) -> folder] : Range(s) = folder}

\* sorted(): the elements of s in ascending order, equal elements kept.
RECURSIVE sorted(_)
sorted(s) ==
    IF s = <<>> THEN <<>>
    ELSE LET x    == s[Len(s)]
             rest == sorted(SubSeq(s, 1, Len(s) - 1))
             k    == Cardinality({j \in 1..Len(rest) : rest[j] <= x})
         IN  SubSeq(rest, 1, k) \o <<x>> \o SubSeq(rest, k + 1, Len(rest))

\* search_all: UID SEARCH ALL; an empty reply gives [], otherwise the uids of
\* the reply sorted ascending. reply: the uids of data[0], in reply order.
search_all(reply) == IF reply = <<>> THEN <<>> ELSE sorted(reply)

\* A mutated search_since_uid that keeps the uid equal to min_uid.
search_since_uid_inclusive(reply, min_uid) ==
    LET Newer(u) == u >= min_uid
    IN  SelectSeq(search_all(reply), Newer)

\* search_since_uid: search_all filtered to uid > min_uid.
search_since_uid(reply, min_uid) ==
    LET Newer(u) == u > min_uid
    IN  SelectSeq(search_all(reply), Newer)

\* ------------------------------------ imap_client.py: the FETCH response
\* What re.search found in a tuple's metadata: <<>> for no match, <<n>> for
\* the number of the token (rb"UID (\d+)", rb"RFC822.SIZE (\d+)").
Metadata(uid_match, size_match) == [uid |-> uid_match, size |-> size_match]

\* An element of the list imaplib returns for a FETCH: None, b")", any other
\* bytes value, or a tuple (metadata, headers).
Element(k, m, h) == [kind |-> k, metadata |-> m, headers |-> h]

\* A mutated size that keeps no default for a missing RFC822.SIZE token.
size_without_default(size_match) ==
    IF size_match # <<>> THEN size_match[1] ELSE -1

\* Line 250: size = int(size_match.group(1)) if size_match else 0.
size_of(size_match) == IF size_match # <<>> THEN size_match[1] ELSE 0

\* results[uid] = value on a dict.
dict_set(d, key, value) ==
    [x \in DOMAIN d \cup {key} |-> IF x = key THEN value ELSE d[x]]

\* _parse_fetch_response: the elements are visited in order; None and b")"
\* are skipped, a tuple whose metadata has a UID token sets results[uid] to
\* its headers and size, anything else is passed over.
RECURSIVE parse_fetch_response(_)
parse_fetch_response(data) ==
    IF data = <<>> THEN <<>>
    ELSE LET results == parse_fetch_response(SubSeq(data, 1, Len(data) - 1))
             item    == data[Len(data)]
         IN  IF item.kind \in {"none", "paren"} THEN results
             ELSE IF item.kind = "tuple" /\ item.metadata.uid # <<>>
             THEN dict_set(results, item.metadata.uid[1],
                           [headers |-> item.headers,
                            size    |-> size_of(item.metadata.size)])
             ELSE results

\* ------------------------------------------------------- fetch.py: filter
\* filter_deleted without the filter: every listed uid is kept.
filter_deleted_keeps_all(us, del) == us

\* fetch_all line 210: uids = [uid for uid in uids if uid not in deleted_uids].
filter_deleted(us, del) ==
    LET Kept(u) == u \notin del
    IN  SelectSeq(us, Kept)

\* A mutated slice that runs one element into the next chunk.
chunk_one_too_long(us, off, bs) ==
    SubSeq(us, off + 1, Smaller(off + bs + 1, Len(us)))

\* fetch_headers_batch / delete_emails: uids[i:i + batch_size].
chunk(us, off, bs) == SubSeq(us, off + 1, Smaller(off + bs, Len(us)))

\* The number of chunks range(0, len(uids), batch_size) has.
num_chunks(n, bs) == (n + bs - 1) \div bs

\* ------------------------------------------------------------------- Init
NoStats == [total_fetched |-> 0, new_stored |-> 0, already_existed |-> 0,
            errors |-> 0, deleted |-> 0]
NoBatch == [uids |-> {}, log |-> <<>>, mode |-> "none"]
NoArgs  == [confirm |-> FALSE, yes |-> FALSE, response |-> <<"unread">>]
NoRun   == [start |-> {}, cursor0 |-> 0, parsed |-> {}, bad |-> {},
            writes |-> 0, tomb0 |-> {}]
NoPrev  == [how |-> "none", inc |-> TRUE, uids |-> <<>>, start |-> {},
            parsed |-> {}]
NoCall  == [op |-> "none", uids |-> {}, ret |-> 0, again |-> FALSE]
NoClient == [op |-> "none", reply |-> <<>>, arg |-> 0, result |-> <<>>,
             data |-> <<>>, parsed |-> <<>>]

NoNorm == [pc |-> "start", input |-> <<>>, pending |-> <<>>, errors |-> 0,
           stored |-> <<>>, outcome |-> "none"]

\* The locals of a command that has not started.
LocalsCleared ==
    /\ kind = "none" /\ incremental = TRUE /\ batch_size = 1
    /\ uids = <<>> /\ i = 0 /\ batch_emails = <<>> /\ fetched = 0
    /\ stats = NoStats /\ outcome = "none"
    /\ requests = <<>> /\ failed = {} /\ lb = NoBatch
    /\ args = NoArgs /\ run = NoRun

\* After init_db() on a fresh database, with an empty remote folder.
Init ==
    /\ remote = {} /\ srv_uidnext = 1 /\ seen = {}
    /\ emails = NoEmails /\ deleted_uids = {} /\ last_uid = 0
    /\ conn = "none" /\ selected = "none"
    /\ pc = "idle"
    /\ LocalsCleared
    /\ prev = NoPrev
    /\ call = NoCall /\ ret_true = {}
    /\ pauses = <<>> /\ client = NoClient /\ norm = NoNorm


\* ------------------------------------------------ the session (both runs)
\* GmailIMAPClient.__enter__ -> connect(): IMAP4_SSL, login, select read-only.
\* A failure raises out of __enter__, so __exit__ never runs; self._conn is
\* already assigned when login or the select fails.
Connect ==
    /\ pc = "connect"
    /\ \/ /\ conn' = "open" /\ selected' = "ro"
          /\ pc' = IF kind = "sync" THEN "enumerate" ELSE "d_batch"
          /\ UNCHANGED outcome
       \/ /\ conn' \in {"none", "open"} /\ selected' = "none"
          /\ outcome' = "raised"
          /\ pc' = "done"
    /\ UNCHANGED <<srvVars, dbVars, kind, incremental, batch_size, uids, i,
                   batch_emails, fetched, stats, obsVars>>

\* How the teardown calls close() and logout() of disconnect end.
Teardowns == {"ok", "raises"}

\* A mutated disconnect without its except clause: a teardown error leaves
\* before self._conn = None.
disconnect_propagates(c, teardown) == IF teardown = "raises" THEN c ELSE "none"

\* GmailIMAPClient.disconnect(): close and logout, their errors swallowed,
\* then self._conn = None.
disconnect(c, teardown) == "none"

\* A mutated error path that stays inside the with block and goes on to the
\* fetch loop.
LeaveWith_goes_on(how) ==
    /\ outcome' = how
    /\ pc' = "fetch"
    /\ UNCHANGED <<conn, selected>>

\* Leaving the with block, by return or by an exception: __exit__ runs
\* disconnect(), and the run is over (how: "returned" | "raised").
LeaveWith(how) ==
    /\ \E teardown \in Teardowns : conn' = disconnect(conn, teardown)
    /\ selected' = "none"
    /\ outcome' = how
    /\ pc' = "done"

\* Staying inside the with block, at position p.
Goto(p) ==
    /\ pc' = p
    /\ UNCHANGED <<conn, selected, outcome>>

\* What a sync run leaves for the command after it: how it ended, its mode,
\* the uids it enumerated, the store it started from, the uids it parsed.
run_summary ==
    IF kind = "sync" /\ outcome \in {"returned", "interrupted"}
    THEN [how |-> outcome, inc |-> incremental, uids |-> uids,
          start |-> run.start, parsed |-> run.parsed]
    ELSE NoPrev

\* The command's process ends; the next command starts from fresh locals.
Finish ==
    /\ pc = "done"
    /\ pc' = "idle"
    /\ conn' = "none" /\ selected' = "none"
    /\ kind' = "none" /\ incremental' = TRUE /\ batch_size' = 1
    /\ uids' = <<>> /\ i' = 0 /\ batch_emails' = <<>> /\ fetched' = 0
    /\ stats' = NoStats /\ outcome' = "none"
    /\ requests' = <<>> /\ failed' = {} /\ lb' = NoBatch
    /\ args' = NoArgs /\ run' = NoRun
    /\ prev' = run_summary
    /\ pauses' = <<>>
    /\ UNCHANGED <<srvVars, dbVars, call, ret_true, client, norm>>

\* ------------------------------------------------- fetch.py: fetch_all
\* main.py cmd_fetch: fetch_all(batch_size=args.batch_size, incremental=not args.full)
StartSync ==
    /\ pc = "idle"
    /\ pc' = "connect"
    /\ kind' = "sync"
    /\ \E inc \in BOOLEAN : incremental' = inc
    /\ \E bs \in BatchSizes : batch_size' = bs
    /\ outcome' = "running"
    /\ run' = [NoRun EXCEPT !.start = Stored(emails), !.cursor0 = last_uid]
    /\ UNCHANGED <<srvVars, dbVars, sessVars, uids, i, batch_emails, fetched,
                   stats, requests, failed, lb, args, prev, call, ret_true,
                   pauses, client, norm>>

\* A mutated listing that uses the cursor in full-resync mode too.
listing_ignores_mode(reply, inc, cursor) == search_since_uid(reply, cursor)

\* Lines 194-206: the listing the run asks for.
listing(reply, inc, cursor) ==
    IF inc /\ cursor > 0 THEN search_since_uid(reply, cursor)
    ELSE search_all(reply)

\* Lines 194-217: list the uids, drop the tombstoned ones, return stats early
\* when nothing is left. A failed SEARCH raises out of the with block.
Enumerate ==
    /\ pc = "enumerate"
    /\ \/ /\ \E reply \in search_reply(remote) :
                uids' = filter_deleted(listing(reply, incremental, last_uid),
                                       get_deleted_uids(deleted_uids))
          /\ IF Len(uids') = 0 THEN LeaveWith("returned") ELSE Goto("fetch")
       \/ /\ LeaveWith("raised")
          /\ UNCHANGED uids
    /\ UNCHANGED <<srvVars, dbVars, kind, incremental, batch_size, i,
                   batch_emails, fetched, stats, obsVars>>

\* A mutated loop body that drops every record of a chunk in which one record
\* fails normalization.
parsed_records_drops_chunk(b, got, bad) ==
    LET Good(u) == bad = {} /\ u \in got
        us == SelectSeq(b, Good)
    IN  [k \in 1..Len(us) |-> Rec(us[k], "a")]

\* Lines 224-235: the records of a chunk's response, in response order, that
\* parse_headers normalized; got is what _parse_fetch_response returned, bad
\* the records parse_headers raised on.
parsed_records(b, got, bad) ==
    LET Good(u) == u \in got \ bad
        us == SelectSeq(b, Good)
    IN  [k \in 1..Len(us) |-> Rec(us[k], "a")]

\* Line 238: if len(batch_emails) >= batch_size.
batch_full(pending, bs) == Len(pending) >= bs

\* One data item of a FETCH command: its name, whether it carries .PEEK, and
\* its section ("" where the item has none).
Item(att, peek, section) == [att |-> att, peek |-> peek, section |-> section]

\* A mutated item list that asks for the headers without PEEK:
\* "(BODY[HEADER] RFC822.SIZE)".
fetch_parts_without_peek ==
    <<Item("BODY", FALSE, "HEADER"), Item("RFC822.SIZE", FALSE, "")>>

\* imap_client.py line 212: fetch_parts = "(BODY.PEEK[HEADER] RFC822.SIZE)".
fetch_parts ==
    <<Item("BODY", TRUE, "HEADER"), Item("RFC822.SIZE", FALSE, "")>>

\* imap_client.py lines 10 and 211: a body section fetched without PEEK makes
\* the server mark the message \Seen.
marks_seen(parts) ==
    \E k \in 1..Len(parts) : parts[k].att = "BODY" /\ ~parts[k].peek

\* A mutated loop whose offset does not advance.
range_next_stuck(off, bs) == off

\* imap_client.py line 282 (delete.py line 153): range(0, len(uids),
\* batch_size) goes from an offset to the next.
range_next(off, bs) == off + bs

\* A mutated pause condition that also pauses after the last chunk.
pause_after_always(off, bs, n) == TRUE

\* imap_client.py line 288 (delete.py line 175): if i + batch_size < len(uids),
\* time.sleep.
pause_after(off, bs, n) == off + bs < n

\* The pauses after the chunk at offset off, the done-th chunk, is handled.
paused(ps, done, off, bs, n) ==
    IF pause_after(off, bs, n) THEN Append(ps, done) ELSE ps

\* One iteration of the loop at line 223: fetch_headers_batch requests the next
\* chunk (one UID FETCH); the body parses, counts and inserts. A failed FETCH
\* raises through the generator and the loop, out of the with block.
FetchChunk ==
    /\ pc = "fetch"
    /\ LET b == chunk(uids, i, batch_size) IN
       /\ requests' = Append(requests, b)
       /\ \/ /\ failed' = failed \cup {Len(requests) + 1}
             /\ LeaveWith("raised")
             /\ UNCHANGED <<emails, i, batch_emails, fetched, stats, run,
                            seen, pauses>>
          \/ \E got \in SUBSET Range(b) : \E bad \in SUBSET got :
               LET pending == batch_emails \o parsed_records(b, got, bad)
                   errs    == stats.errors + Cardinality(bad)
                   ins     == insert_emails_batch(emails, pending)
               IN  /\ fetched' = fetched + Cardinality(got \ bad)
                   /\ run' = [run EXCEPT !.parsed = @ \cup (got \ bad),
                                          !.bad = @ \cup bad]
                   /\ seen' = seen \cup (IF marks_seen(fetch_parts)
                                          THEN Range(b) \cap remote ELSE {})
                   /\ pauses' = paused(pauses, Len(requests) + 1, i,
                                       batch_size, Len(uids))
                   /\ IF batch_full(pending, batch_size)
                      THEN /\ emails' = ins.emails
                           /\ stats' = [stats EXCEPT
                                  !.errors = errs,
                                  !.new_stored = @ + ins.inserted,
                                  !.already_existed = @ + Len(pending) - ins.inserted]
                           /\ batch_emails' = <<>>
                      ELSE /\ emails' = emails
                           /\ stats' = [stats EXCEPT !.errors = errs]
                           /\ batch_emails' = pending
                   /\ i' = range_next(i, batch_size)
                   /\ Goto(IF range_next(i, batch_size) < Len(uids)
                           THEN "fetch" ELSE "flush")
                   /\ UNCHANGED failed
    /\ UNCHANGED <<remote, srv_uidnext, deleted_uids, last_uid, kind,
                   incremental, batch_size, uids, lb, args, prev, call, ret_true,
                   client, norm>>

\* Lines 252-255: insert the remaining records.
Flush ==
    /\ pc = "flush"
    /\ LET ins == insert_emails_batch(emails, batch_emails) IN
       IF batch_emails # <<>>
       THEN /\ emails' = ins.emails
            /\ stats' = [stats EXCEPT
                   !.new_stored = @ + ins.inserted,
                   !.already_existed = @ + Len(batch_emails) - ins.inserted]
       ELSE UNCHANGED <<emails, stats>>
    /\ Goto("cursor")
    /\ UNCHANGED <<srvVars, deleted_uids, last_uid, kind, incremental,
                   batch_size, uids, i, batch_emails, fetched, obsVars>>

\* A mutated order that writes the cursor before get_uidnext is called.
last_uid_on_failed_status_written(old_last_uid, max_uid) == max_uid

\* Lines 260-261: get_uidnext() raises before update_sync_state is reached;
\* the cursor stays.
last_uid_on_failed_status(old_last_uid, max_uid) == old_last_uid

\* Lines 258-267: max_uid = max(uids); uidnext = client.get_uidnext();
\* update_sync_state(conn, max_uid, uidnext); the with block ends;
\* stats["total_fetched"] = fetched; return stats. A failed STATUS raises
\* before the update.
UpdateCursor ==
    /\ pc = "cursor"
    /\ \/ /\ last_uid' = update_sync_state(last_uid, MaxOf(Range(uids)))
          /\ stats' = [stats EXCEPT !.total_fetched = fetched]
          /\ run' = [run EXCEPT !.writes = @ + 1]
          /\ LeaveWith("returned")
       \/ /\ last_uid' = last_uid_on_failed_status(last_uid, MaxOf(Range(uids)))
          /\ LeaveWith("raised")
          /\ UNCHANGED <<stats, run>>
    /\ UNCHANGED <<srvVars, emails, deleted_uids, kind, incremental, batch_size,
                   uids, i, batch_emails, fetched, requests, failed, lb, args,
                   prev, call, ret_true, pauses, client, norm>>

\* The host process is stopped at some point of the with block of a sync run:
\* before the listing, between two chunks, before the last insert or before
\* the cursor update.
Interrupt ==
    /\ pc \in {"enumerate", "fetch", "flush", "cursor"}
    /\ outcome' = "interrupted"
    /\ pc' = "done"
    /\ conn' = "none" /\ selected' = "none"
    /\ UNCHANGED <<srvVars, dbVars, kind, incremental, batch_size, uids, i,
                   batch_emails, fetched, stats, obsVars>>

\* --------------------------------------------- delete.py: delete_emails
\* delete.py main: all_uids = sorted(set(all_uids)), not empty;
\* delete_emails(all_uids, batch_size=args.batch_size).
Candidates == {SortedSeq(S) : S \in SUBSET UIDs \ {{}}}

\* A line typed at the confirmation prompt, as input() returns it: a word and
\* a count ("DELETE 2", "delete 2", "yes 0", ...); Eof when input() raises
\* EOFError; Unread when the prompt is never shown.
Words == {"DELETE", "delete", "yes"}
Line(w, n) == [word |-> w, n |-> n]
Eof == Line("<eof>", 0)
Unread == Line("<unread>", 0)
Responses == {Line(w, n) : w \in Words, n \in 0..MaxUid} \cup {Eof}

\* The mutated forms of the two gates below.
confirmed_always(yes, response, n) == TRUE
dry_run_never(confirm) == FALSE

\* Line 270: expected = f"DELETE {len(all_uids)}".
expected(n) == Line("DELETE", n)

\* Lines 267-280: --yes skips the prompt; otherwise the line typed has to
\* equal expected, and EOFError or any other line exits.
confirmed(yes, response, n) == yes \/ response = expected(n)

\* Lines 261 and 291-293: without --confirm the tool only previews.
dry_run(confirm) == ~confirm

\* The line read at the prompt: the prompt is shown only with --confirm and
\* without --yes.
typed(confirm, yes) == IF confirm /\ ~yes THEN Responses ELSE {Unread}

\* delete.py main from line 253 on (main.py cmd_cleanup lines 310-333 has the
\* same gates, --delete for --confirm), up to one of its three ends.
main_frame(cands, confirm, yes, response) ==
    /\ kind' = "delete" /\ uids' = cands
    /\ args' = [confirm |-> confirm, yes |-> yes, response |-> response]
    /\ prev' = NoPrev
    /\ UNCHANGED <<srvVars, dbVars, sessVars, incremental, i, batch_emails,
                   fetched, stats, requests, failed, lb, call, ret_true,
                   pauses, client, norm>>

\* Lines 291-293: preview_deletion(all_uids) reads the table emails and prints.
PreviewDeletion ==
    /\ pc = "idle"
    /\ \E cands \in Candidates, confirm \in BOOLEAN, yes \in BOOLEAN :
         \E response \in typed(confirm, yes) :
            /\ dry_run(confirm)
            /\ main_frame(cands, confirm, yes, response)
    /\ pc' = "done" /\ outcome' = "previewed"
    /\ UNCHANGED <<batch_size, run>>

\* Lines 272-278: the confirmation failed, sys.exit(1).
AbortDeletion ==
    /\ pc = "idle"
    /\ \E cands \in Candidates, confirm \in BOOLEAN, yes \in BOOLEAN :
         \E response \in typed(confirm, yes) :
            /\ ~dry_run(confirm)
            /\ ~confirmed(yes, response, Len(cands))
            /\ main_frame(cands, confirm, yes, response)
    /\ pc' = "done" /\ outcome' = "aborted"
    /\ UNCHANGED <<batch_size, run>>

\* Lines 282-283: delete_emails(all_uids, batch_size=args.batch_size).
StartDelete ==
    /\ pc = "idle"
    /\ \E cands \in Candidates, confirm \in BOOLEAN, yes \in BOOLEAN :
         \E response \in typed(confirm, yes) :
            /\ ~dry_run(confirm)
            /\ confirmed(yes, response, Len(cands))
            /\ main_frame(cands, confirm, yes, response)
    /\ pc' = "connect" /\ outcome' = "running"
    /\ \E bs \in BatchSizes : batch_size' = bs
    /\ run' = [NoRun EXCEPT !.tomb0 = deleted_uids]

\* What the server answers to the commands of delete_messages: a status, or
\* "raise" for an exception of imaplib; "none" for a command that is never
\* sent because an earlier one raised.
ServerAnswers ==
    {a \in [select : {"OK", "raise"}, store : {"OK", "NO", "none"},
            expunge : {"OK", "NO", "raise", "none"},
            reselect : {"OK", "raise", "none"}] :
        /\ (a.store = "none") <=> (a.select # "OK")
        /\ (a.expunge = "none") <=> (a.store # "OK")
        /\ (a.reselect = "none") <=> (a.expunge \notin {"OK", "NO"})}

Cmd(c, st) == [cmd |-> c, status |-> st]

\* A mutated delete_messages that does not look at the status of the STORE
\* and goes on to the purge.
delete_messages_ignores_store(b, ans) ==
    LET s1 == <<Cmd("select_rw", ans.select)>>
        s2 == Append(s1, Cmd("store", ans.store))
        s3 == Append(s2, Cmd("expunge", ans.expunge))
        s4 == Append(s3, Cmd("select_ro", ans.reselect))
    IN  IF ans.select # "OK"
        THEN [log |-> s1, raised |-> TRUE, mode |-> "none", ret |-> 0]
        ELSE IF ans.store # "OK"
        THEN [log |-> s3, raised |-> TRUE, mode |-> "rw", ret |-> 0]
        ELSE IF ans.expunge = "raise"
        THEN [log |-> s3, raised |-> TRUE, mode |-> "rw", ret |-> 0]
        ELSE IF ans.reselect # "OK"
        THEN [log |-> s4, raised |-> TRUE, mode |-> "none", ret |-> 0]
        ELSE [log |-> s4, raised |-> FALSE, mode |-> "ro", ret |-> Len(b)]

\* imap_client.py delete_messages (uids not empty, expunge=True): select
\* read-write (raises unless OK), UID STORE +FLAGS \Deleted (raises unless
\* OK), expunge (its result is not looked at: only an exception leaves),
\* select read-only (raises unless OK), return len(uids).
\* log: the commands issued, in order; mode: the folder selection afterwards.
delete_messages(b, ans) ==
    LET s1 == <<Cmd("select_rw", ans.select)>>
        s2 == Append(s1, Cmd("store", ans.store))
        s3 == Append(s2, Cmd("expunge", ans.expunge))
        s4 == Append(s3, Cmd("select_ro", ans.reselect))
    IN  IF ans.select # "OK"
        THEN [log |-> s1, raised |-> TRUE, mode |-> "none", ret |-> 0]
        ELSE IF ans.store # "OK"
        THEN [log |-> s2, raised |-> TRUE, mode |-> "rw", ret |-> 0]
        ELSE IF ans.expunge = "raise"
        THEN [log |-> s3, raised |-> TRUE, mode |-> "rw", ret |-> 0]
        ELSE IF ans.reselect # "OK"
        THEN [log |-> s4, raised |-> TRUE, mode |-> "none", ret |-> 0]
        ELSE [log |-> s4, raised |-> FALSE, mode |-> "ro", ret |-> Len(b)]

\* The remote side of a batch: both STORE and EXPUNGE were answered OK.
RemoteRemoved(log) ==
    /\ \E k \in 1..Len(log) : log[k] = Cmd("store", "OK")
    /\ \E k \in 1..Len(log) : log[k] = Cmd("expunge", "OK")

\* A mutated try block whose except branch counts nothing.
delete_try_counts_no_error(st, em, del, b, r) ==
    IF r.raised
    THEN [stats |-> st, emails |-> em, deleted_uids |-> del]
    ELSE [stats |-> [st EXCEPT !.deleted = @ + r.ret],
          emails |-> mark_deleted_emails(em, b),
          deleted_uids |-> mark_deleted_tombstones(del, b)]

\* delete_emails lines 156-172: the try block, reduced to its effect on the
\* store and the counters; r is what delete_messages did.
delete_try(st, em, del, b, r) ==
    IF r.raised
    THEN [stats |-> [st EXCEPT !.errors = @ + Len(b)],
          emails |-> em, deleted_uids |-> del]
    ELSE [stats |-> [st EXCEPT !.deleted = @ + r.ret],
          emails |-> mark_deleted_emails(em, b),
          deleted_uids |-> mark_deleted_tombstones(del, b)]

\* One iteration of the loop at line 153: delete_messages on the batch, then
\* mark_deleted or the except branch, then the next value of i; after the
\* last batch the with block ends and stats is returned. After an EXPUNGE
\* answered OK the folder may go on listing the messages for a while
\* (db.py lines 92-93).
DeleteBatch ==
    /\ pc = "d_batch"
    /\ \E ans \in ServerAnswers :
         LET b == chunk(uids, i, batch_size)
             r == delete_messages(b, ans)
             t == delete_try(stats, emails, deleted_uids, b, r)
         IN  /\ \/ remote' = remote
                \/ RemoteRemoved(r.log) /\ remote' = remote \ Range(b)
             /\ lb' = [uids |-> Range(b), log |-> r.log, mode |-> r.mode]
             /\ requests' = Append(requests, b)
             /\ failed' = IF r.raised THEN failed \cup {Len(requests) + 1}
                          ELSE failed
             /\ stats' = t.stats
             /\ emails' = t.emails
             /\ deleted_uids' = t.deleted_uids
             /\ IF range_next(i, batch_size) < Len(uids)
                THEN /\ pc' = "d_batch"
                     /\ selected' = r.mode
                     /\ UNCHANGED <<conn, outcome>>
                ELSE LeaveWith("returned")
    /\ i' = range_next(i, batch_size)
    /\ pauses' = paused(pauses, (i \div batch_size) + 1, i, batch_size, Len(uids))
    /\ UNCHANGED <<srv_uidnext, seen, last_uid, kind, incremental, batch_size,
                   uids, batch_emails, fetched, args, run, prev, call, ret_true,
                   client, norm>>

\* ------------------------------------------ the remote folder between runs
\* A message arrives: it gets the uid UIDNEXT.
RemoteGain ==
    /\ pc = "idle"
    /\ srv_uidnext <= MaxUid
    /\ remote' = remote \cup {srv_uidnext}
    /\ srv_uidnext' = srv_uidnext + 1
    /\ prev' = NoPrev
    /\ UNCHANGED <<seen, dbVars, sessVars, pc, locVars, requests, failed, lb,
                   args, run, call, ret_true, pauses, client, norm>>

\* A message disappears (another client removed it, or a purge took effect).
RemoteLose ==
    /\ pc = "idle"
    /\ \E u \in remote : remote' = remote \ {u}
    /\ prev' = NoPrev
    /\ UNCHANGED <<srv_uidnext, seen, dbVars, sessVars, pc, locVars, requests,
                   failed, lb, args, run, call, ret_true, pauses, client, norm>>

\* ------------------------------------------------------------ the program
Next ==
    \/ StartSync
    \/ PreviewDeletion
    \/ AbortDeletion
    \/ StartDelete
    \/ Connect
    \/ Enumerate
    \/ FetchChunk
    \/ Flush
    \/ UpdateCursor
    \/ Interrupt
    \/ DeleteBatch
    \/ Finish
    \/ RemoteGain
    \/ RemoteLose

Spec == Init /\ [][Next]_vars

\* ------------------------------------------------ one run, run to its end
\* The store and the folder as earlier runs and the server can have left
\* them: any folder, any tombstones, rows for uids without a tombstone, any
\* cursor.
LiveInit ==
    /\ remote \in SUBSET UIDs /\ srv_uidnext = MaxUid + 1 /\ seen = {}
    /\ deleted_uids \in SUBSET UIDs
    /\ \E S \in SUBSET (UIDs \ deleted_uids) :
         emails = [u \in UIDs |-> IF u \in S THEN "a" ELSE NoRow]
    /\ last_uid \in 0..MaxUid
    /\ conn = "none" /\ selected = "none"
    /\ pc = "idle"
    /\ LocalsCleared
    /\ prev = NoPrev
    /\ call = NoCall /\ ret_true = {}
    /\ pauses = <<>> /\ client = NoClient /\ norm = NoNorm

\* The steps of one sync run or one deletion run.
LiveNext ==
    \/ StartSync
    \/ StartDelete
    \/ Connect
    \/ Enumerate
    \/ FetchChunk
    \/ Flush
    \/ UpdateCursor
    \/ Interrupt
    \/ DeleteBatch

\* One run with every remote request returning or failing, and the local
\* steps between them being taken: a run that can take its next step takes
\* it.
LiveSpec ==
    /\ LiveInit /\ [][LiveNext]_vars
    /\ WF_vars(Connect) /\ WF_vars(Enumerate) /\ WF_vars(FetchChunk)
    /\ WF_vars(Flush) /\ WF_vars(UpdateCursor) /\ WF_vars(DeleteBatch)


\* ------------------------------------------- the store under direct calls
\* Longest list a store call is given.
MaxCallLen == 2

Records == {Rec(u, d) : u \in UIDs, d \in Data}
SeqsUpTo(S, n) == UNION {[1..k -> S] : k \in 0..n}

\* What every store call leaves alone.
StoreFrame ==
    UNCHANGED <<srvVars, sessVars, pc, locVars, requests, failed, lb, args,
                run, prev, pauses, client, norm>>

\* The call being made is the operation of the call before it, on uids that
\* call was given.
again(op, us) == call.op = op /\ us \subseteq call.uids

\* insert_email(conn, email_data)
CallInsertEmail ==
    /\ \E rec \in Records :
        /\ emails' = insert_email(emails, rec)
        /\ call' = [op |-> "insert_email", uids |-> {rec.uid},
                    ret |-> IF insert_email_ret(emails, rec) THEN 1 ELSE 0,
                    again |-> again("insert_email", {rec.uid})]
        /\ ret_true' = ret_true \cup
                           (IF insert_email_ret(emails, rec) THEN {rec.uid} ELSE {})
    /\ UNCHANGED <<deleted_uids, last_uid>>
    /\ StoreFrame

\* insert_emails_batch(conn, emails)
CallInsertEmailsBatch ==
    /\ \E recs \in SeqsUpTo(Records, MaxCallLen) :
        LET ins == insert_emails_batch(emails, recs) IN
        /\ emails' = ins.emails
        /\ call' = [op |-> "insert_emails_batch",
                    uids |-> {recs[k].uid : k \in 1..Len(recs)},
                    ret |-> ins.inserted,
                    again |-> again("insert_emails_batch",
                                    {recs[k].uid : k \in 1..Len(recs)})]
        /\ ret_true' = ret_true \cup (Stored(ins.emails) \ Stored(emails))
    /\ UNCHANGED <<deleted_uids, last_uid>>
    /\ StoreFrame

\* update_sync_state(conn, last_uid, total_messages)
CallUpdateSyncState ==
    /\ \E m \in UIDs :
        /\ last_uid' = update_sync_state(last_uid, m)
        /\ call' = [op |-> "update_sync_state", uids |-> {m}, ret |-> 0,
                    again |-> again("update_sync_state", {m})]
    /\ UNCHANGED <<emails, deleted_uids, ret_true>>
    /\ StoreFrame

\* mark_deleted(conn, uids)
CallMarkDeleted ==
    /\ \E us \in SeqsUpTo(UIDs, MaxCallLen) :
        /\ deleted_uids' = mark_deleted_tombstones(deleted_uids, us)
        /\ emails' = mark_deleted_emails(emails, us)
        /\ call' = [op |-> "mark_deleted", uids |-> Range(us), ret |-> 0,
                    again |-> again("mark_deleted", Range(us))]
    /\ UNCHANGED <<last_uid, ret_true>>
    /\ StoreFrame

StoreNext ==
    \/ CallInsertEmail
    \/ CallInsertEmailsBatch
    \/ CallUpdateSyncState
    \/ CallMarkDeleted

StoreSpec == Init /\ [][StoreNext]_vars


\* ------------------------- imap_client.py: fetch_headers_batch on its own
\* Longest list the generator is given.
MaxListLen == 4

\* fetch_headers_batch(uids, batch_size) for any list and batch size, every
\* request answered.
ChunkInit ==
    /\ remote = {} /\ srv_uidnext = 1 /\ seen = {}
    /\ emails = NoEmails /\ deleted_uids = {} /\ last_uid = 0
    /\ conn = "open" /\ selected = "ro"
    /\ pc = "chunking"
    /\ kind = "none" /\ incremental = TRUE
    /\ batch_size \in BatchSizes
    /\ uids \in SeqsUpTo(UIDs, MaxListLen)
    /\ i = 0 /\ batch_emails = <<>> /\ fetched = 0
    /\ stats = NoStats /\ outcome = "none"
    /\ requests = <<>> /\ failed = {} /\ lb = NoBatch
    /\ args = NoArgs /\ run = NoRun /\ prev = NoPrev
    /\ call = NoCall /\ ret_true = {}
    /\ pauses = <<>> /\ client = NoClient /\ norm = NoNorm

ChunkFrame ==
    UNCHANGED <<srvVars, dbVars, sessVars, kind, incremental, batch_size, uids,
                batch_emails, fetched, stats, outcome, failed, lb, args, run,
                prev, call, ret_true, client, norm>>

\* Lines 282-289: the next value of range(0, len(uids), batch_size), the
\* slice, the request for it, and the pause before the next one.
YieldChunk ==
    /\ pc = "chunking" /\ i < Len(uids)
    /\ requests' = Append(requests, chunk(uids, i, batch_size))
    /\ pauses' = paused(pauses, Len(requests) + 1, i, batch_size, Len(uids))
    /\ i' = range_next(i, batch_size)
    /\ UNCHANGED pc
    /\ ChunkFrame

\* The range is used up: the generator ends.
ChunksExhausted ==
    /\ pc = "chunking" /\ i >= Len(uids)
    /\ pc' = "exhausted"
    /\ UNCHANGED <<i, requests, pauses>>
    /\ ChunkFrame

ChunkNext ==
    \/ YieldChunk
    \/ ChunksExhausted

ChunkSpec == ChunkInit /\ [][ChunkNext]_vars

\* --------------------------------- imap_client.py: the client's pure steps
MaxDataLen == 3

\* The SEARCH replies of a folder of any content.
Replies == UNION {search_reply(S) : S \in SUBSET UIDs}

\* The sizes a server reports.
Sizes == {4567}

\* The elements of a FETCH response.
Elements ==
    {Element("none", Metadata(<<>>, <<>>), ""),
     Element("paren", Metadata(<<>>, <<>>), ""),
     Element("bytes", Metadata(<<>>, <<>>), "")}
    \cup {Element("tuple", Metadata(um, sm), h) :
             um \in {<<>>} \cup {<<u>> : u \in UIDs},
             sm \in {<<>>} \cup {<<n>> : n \in Sizes},
             h \in Data}

\* What a call of the client leaves alone. The three steps compute their
\* result from their argument only, so each is taken once, from the state in
\* which no call was made.
ClientFrame ==
    UNCHANGED <<srvVars, dbVars, sessVars, pc, locVars, requests, failed, lb,
                args, run, prev, call, ret_true, pauses, norm>>

\* search_all() on a reply of the server.
CallSearchAll ==
    /\ client = NoClient
    /\ \E reply \in Replies :
         client' = [NoClient EXCEPT !.op = "search_all", !.reply = reply,
                                    !.result = search_all(reply)]
    /\ ClientFrame

\* search_since_uid(min_uid) on a reply of the server.
CallSearchSinceUid ==
    /\ client = NoClient
    /\ \E reply \in Replies : \E min_uid \in 0..MaxUid :
         client' = [NoClient EXCEPT !.op = "search_since_uid", !.reply = reply,
                                    !.arg = min_uid,
                                    !.result = search_since_uid(reply, min_uid)]
    /\ ClientFrame

\* _parse_fetch_response(data) on a response of the server.
CallParseFetchResponse ==
    /\ client = NoClient
    /\ \E data \in SeqsUpTo(Elements, MaxDataLen) :
         client' = [NoClient EXCEPT !.op = "parse_fetch_response", !.data = data,
                                    !.parsed = parse_fetch_response(data)]
    /\ ClientFrame

ClientNext ==
    \/ CallSearchAll
    \/ CallSearchSinceUid
    \/ CallParseFetchResponse

ClientSpec == Init /\ [][ClientNext]_vars

\* ------------------------------ fetch.py: parse_headers and what it stores
MaxRecords == 2

\* The Date header of a message as the server sends it: none, an RFC 2822
\* date, text that is no date, or a value with a byte outside ASCII.
RawDates == {"absent", "rfc2822", "garbage", "8bit"}

\* The Message-ID header: ASCII text, or a value with a byte outside ASCII.
RawIds == {"ascii", "8bit"}

\* The headers of one fetched record.
RawRecord(date, mid) == [date |-> date, mid |-> mid]

\* msg.get(name, ""): "" for an absent header, a str for an ASCII value, and
\* under the default policy of email.message_from_bytes an
\* email.header.Header object for a value with a byte outside ASCII.
msg_get(raw) ==
    IF raw = "absent" THEN [type |-> "str", text |-> ""]
    ELSE IF raw = "8bit" THEN [type |-> "Header", text |-> raw]
    ELSE [type |-> "str", text |-> raw]

\* parse_date (lines 90-117): None (<<>>) for an empty header and for whatever
\* parsedate_to_datetime raises on, otherwise the ISO8601 text.
parse_date(date_header) ==
    IF date_header.type = "str" /\ date_header.text = "" THEN <<>>
    ELSE IF date_header.type = "str" /\ date_header.text = "rfc2822"
    THEN <<"2024-01-01T12:00:00+00:00">>
    ELSE <<>>

\* parse_headers (lines 120-159) raises when message_id.strip() is called on
\* a Header object (line 150).
parse_headers_raises(raw) == msg_get(raw.mid).type # "str"

\* parse_headers: date_header is what msg.get returned (lines 139, 156),
\* date_parsed what parse_date made of it (lines 146, 157).
parse_headers(raw, uid) ==
    [uid |-> uid, date_header |-> msg_get(raw.date),
     date_parsed |-> parse_date(msg_get(raw.date))]

\* insert_email (db.py 115-123) binds the dict's values as parameters of the
\* INSERT: sqlite3 binds a str or None, and raises on a Header object.
binds(email_data) == email_data.date_header.type = "str"

\* What the steps on one response leave alone.
NormFrame ==
    UNCHANGED <<srvVars, dbVars, sessVars, pc, locVars, requests, failed, lb,
                args, run, prev, call, ret_true, pauses, client>>

\* fetch.py lines 224-235 on the records of one response: each record is
\* normalized and appended, or counted as an error when parse_headers raises.
NormalizeResponse ==
    /\ norm.pc = "start"
    /\ \E input \in SeqsUpTo({RawRecord(d, m) : d \in RawDates, m \in RawIds},
                               MaxRecords) \ {<<>>} :
         LET Good(k) == ~parse_headers_raises(input[k])
             ks == SelectSeq([k \in 1..Len(input) |-> k], Good)
         IN  norm' = [norm EXCEPT
                 !.pc = "parsed", !.input = input, !.outcome = "running",
                 !.pending = [j \in 1..Len(ks) |-> parse_headers(input[ks[j]], ks[j])],
                 !.errors = Len(input) - Len(ks)]
    /\ NormFrame

\* fetch.py lines 238-242 or 252-255: insert_emails_batch on the pending
\* records. An INSERT that cannot bind raises out of insert_emails_batch
\* before its commit (db.py 135-139) and out of fetch_all, which has no
\* handler around it: the rows of the batch are not committed.
InsertResponse ==
    /\ norm.pc = "parsed"
    /\ IF \A k \in 1..Len(norm.pending) : binds(norm.pending[k])
       THEN norm' = [norm EXCEPT !.pc = "done", !.stored = norm.pending,
                                 !.pending = <<>>, !.outcome = "returned"]
       ELSE norm' = [norm EXCEPT !.pc = "done", !.outcome = "raised"]
    /\ NormFrame

NormNext ==
    \/ NormalizeResponse
    \/ InsertResponse

NormSpec == Init /\ [][NormNext]_vars


\* =================================================================== claims
\* A sync run that has ended other than by the host stopping it.
SyncEnded == kind = "sync" /\ pc = "done" /\ outcome \in {"returned", "raised"}

\* A deletion run that has handled at least one batch.
DeleteBatchDone == kind = "delete" /\ lb.log # <<>>

\* C1: over sync runs (incremental or full) and deletion runs, with the remote
\* folder gaining and losing messages between runs, last_uid never decreases.
C1_CursorNeverDecreases == [][last_uid' >= last_uid]_vars

\* C2: the cursor update of a sync run leaves last_uid equal to the larger of
\* its previous value and the max uid it is given: a smaller value is a no-op.
C2_AdvanceCursorIsMax ==
    [][(pc = "cursor" /\ outcome' = "returned")
         => last_uid' = Larger(last_uid, MaxOf(Range(uids)))]_vars

\* C3: after a sync run, every uid the run enumerated for fetching that is at
\* most the new cursor has a record in the store.
C3_CursorCoversOnlyStored ==
    (SyncEnded /\ outcome = "returned")
        => \A u \in Range(uids) : u <= last_uid => emails[u] # NoRow

\* C4: once a uid is in the tombstone set, no later store operation makes it
\* present in the table emails again.
C4_TombstonedNeverReenters ==
    [][\A u \in deleted_uids : emails[u] = NoRow => emails'[u] = NoRow]_vars

\* C5: in every sync run, no retrieval request contains a uid of the
\* tombstone set (which a sync run never changes), also when the remote
\* listing still reports that uid.
C5_NoTombstonedUidRequested ==
    kind = "sync"
        => \A k \in 1..Len(requests) : Range(requests[k]) \cap deleted_uids = {}

\* C5 witness: a sync run has sent a request although the listing it asked for
\* reports a tombstoned uid.
C5_Witness ==
    /\ kind = "sync" /\ pc \in {"fetch", "flush", "cursor"}
    /\ requests # <<>>
    /\ Range(listing(SortedSeq(remote), incremental, last_uid))
           \cap deleted_uids # {}

\* C6: a deletion batch whose STORE and EXPUNGE both succeeded is tombstoned
\* and removed from the store, whatever happens later in delete_messages.
C6_ConfirmedRemovalIsRecorded ==
    (DeleteBatchDone /\ RemoteRemoved(lb.log))
        => /\ lb.uids \subseteq deleted_uids
           /\ \A u \in lb.uids : emails[u] = NoRow

\* C7: a uid is tombstoned, or its record removed, only by a batch whose remote
\* removal (STORE and EXPUNGE) was confirmed successful.
C7_TombstoneOnlyAfterRemoteSuccess ==
    [][(deleted_uids' # deleted_uids \/ ~(Stored(emails) \subseteq Stored(emails')))
         => RemoteRemoved(lb'.log)]_vars

\* C8: after delete_messages exits, by any path, the folder is selected
\* read-only.
C8_ReadOnlyRestored == DeleteBatchDone => lb.mode = "ro"

\* C9: a failed chunk request does not abort the sync run: every chunk is
\* still requested and every record parsed from a chunk that succeeded is in
\* the store when the run ends.
C9_ChunkFailureDoesNotAbort ==
    (SyncEnded /\ failed # {})
        => /\ Len(requests) = num_chunks(Len(uids), batch_size)
           /\ \A k \in 1..Len(batch_emails) : emails[batch_emails[k].uid] # NoRow

\* C10: when a chunk's retrieval fails, the run still returns its statistics,
\* and its error count includes the identifiers of every failed chunk.
C10_FailedChunkCountedAsErrors ==
    (SyncEnded /\ failed # {})
        => /\ outcome = "returned"
           /\ \A k \in failed : stats.errors >= Len(requests[k])

\* A sync run that has returned its statistics.
SyncReturned == SyncEnded /\ outcome = "returned"

\* C11: a sync run that completes right after a completed sync run of the same
\* mode, with no remote change in between (the folder lists the same uids
\* and serves no record it did not serve to the first run), inserts no new
\* record and leaves last_uid as it found it.
C11_SecondSyncIsNoOp ==
    (SyncReturned /\ prev.how = "returned" /\ prev.inc = incremental
       /\ run.parsed \subseteq prev.parsed)
        => /\ stats.new_stored = 0
           /\ Stored(emails) = run.start
           /\ last_uid = run.cursor0

\* C11 witness: the second of two completed full syncs, which parsed records
\* again.
C11_Witness ==
    /\ SyncReturned /\ prev.how = "returned" /\ ~prev.inc /\ ~incremental
    /\ run.parsed # {} /\ run.parsed \subseteq prev.parsed

\* C12: insert_email keeps the first record stored for a uid, and over any
\* sequence of store calls it returns True at most once for a uid.
C12_InsertReturnsTrueOnce ==
    [][/\ call'.op \in {"insert_email", "insert_emails_batch"}
          => \A u \in Stored(emails) : emails'[u] = emails[u]
       /\ (call'.op = "insert_email" /\ call'.ret = 1)
          => call'.uids \cap ret_true = {}]_vars

\* C13: insert_emails_batch returns the number of rows it added to the table
\* emails, also when the list repeats a uid or holds a uid already stored.
C13_BatchReturnsGrowth ==
    [][call'.op = "insert_emails_batch"
         => call'.ret = Cardinality(Stored(emails')) - Cardinality(Stored(emails))]_vars

\* C13 witness: a batch that held a uid already stored besides a new one.
C13_Witness ==
    /\ call.op = "insert_emails_batch"
    /\ call.ret > 0 /\ call.ret < Cardinality(call.uids)

\* C14: after mark_deleted every uid of the list is tombstoned and has no row;
\* a call with uids that are tombstoned and have no row, and a call repeating
\* uids of the mark_deleted call before it, change neither table.
C14_MarkDeletedIdempotent ==
    [][call'.op = "mark_deleted"
         => /\ call'.uids \subseteq deleted_uids'
            /\ \A u \in call'.uids : emails'[u] = NoRow
            /\ (call'.uids \subseteq deleted_uids \ Stored(emails)
                  \/ (call.op = "mark_deleted" /\ call'.uids \subseteq call.uids))
                 => UNCHANGED <<emails, deleted_uids>>]_vars

\* C14 witness: mark_deleted called again with uids of the call before it.
C14_Witness ==
    call.op = "mark_deleted" /\ call.again /\ call.uids # {}

\* ceil(n / b) for b >= 1.
Ceil(n, b) == CHOOSE k \in 0..n : k * b >= n /\ (k = 0 \/ (k - 1) * b < n)

RECURSIVE Concat(_)
Concat(ss) == IF ss = <<>> THEN <<>> ELSE Head(ss) \o Concat(Tail(ss))

\* C15: for N uids and batch size B the generator issues ceil(N/B) requests,
\* each for at most B uids, whose concatenation is the input list.
C15_ChunksPartitionInput ==
    pc = "exhausted"
        => /\ Len(requests) = Ceil(Len(uids), batch_size)
           /\ \A k \in 1..Len(requests) : Len(requests[k]) <= batch_size
           /\ Concat(requests) = uids

\* C15 witness: a list whose length is not a multiple of the batch size, split
\* into more than one request.
C15_Witness ==
    /\ pc = "exhausted" /\ Len(requests) > 1
    /\ Len(uids) % batch_size # 0

\* A deletion run that has returned its statistics.
DeleteReturned == kind = "delete" /\ pc = "done" /\ outcome = "returned"

\* C16: in a deletion run a failed batch adds its size to the error count and
\* the run goes on with the next batch; when the run returns, every uid has
\* been counted as deleted or as an error.
C16_FailedBatchDoesNotStopRun ==
    /\ [][(pc = "d_batch" /\ lb'.mode # "ro")
            => /\ stats'.errors = stats.errors + Cardinality(lb'.uids)
               /\ stats'.deleted = stats.deleted
               /\ i + batch_size < Len(uids)
                    => pc' = "d_batch" /\ i' = i + batch_size]_vars
    /\ [](DeleteReturned
            => i >= Len(uids) /\ stats.deleted + stats.errors = Len(uids))

\* C16 witness: a run that returned after a failed batch and a later batch
\* that succeeded.
C16_Witness ==
    DeleteReturned /\ stats.errors > 0 /\ stats.deleted > 0 /\ lb.mode = "ro"

\* The deletion has gone past the confirmation, to the remote phase.
RemotePhase ==
    kind = "delete" /\ (pc \in {"connect", "d_batch"}
                          \/ outcome \in {"returned", "raised"})

\* C17 as stated: the deletion reaches the remote phase only when the line
\* typed at the prompt is the literal DELETE K.
C17_OnlyLiteralProceeds ==
    RemotePhase => args.response = expected(Len(uids))

\* C17: with --confirm, the deletion reaches the remote phase only when --yes
\* is given or the line typed is the literal DELETE K; otherwise it aborts
\* with no remote request and no change to the store or the tombstone set.
C17_LiteralOrYesProceeds ==
    /\ []((kind = "delete" /\ args.confirm)
            => IF args.yes \/ args.response = expected(Len(uids))
               THEN RemotePhase
               ELSE /\ pc = "done" /\ outcome = "aborted"
                    /\ conn = "none" /\ lb = NoBatch)
    /\ [][(outcome' = "aborted" \/ outcome = "aborted")
            => UNCHANGED <<srvVars, dbVars, sessVars>>]_vars

\* C17 witness: a deletion aborted on DELETE with the wrong count.
C17_Witness ==
    /\ kind = "delete" /\ outcome = "aborted"
    /\ args.response.word = "DELETE" /\ args.response.n # Len(uids)
    /\ Range(uids) \subseteq Stored(emails)

\* C18: without --confirm a deletion request only previews: no connection, no
\* remote command, and neither the remote folder nor the store changes.
C18_DryRunIsDefault ==
    /\ []((kind = "delete" /\ ~args.confirm)
            => /\ pc = "done" /\ outcome = "previewed"
               /\ conn = "none" /\ lb = NoBatch)
    /\ [][((kind' = "delete" /\ ~args'.confirm) \/ (kind = "delete" /\ ~args.confirm))
            => UNCHANGED <<srvVars, dbVars, sessVars>>]_vars

\* C18 witness: a preview of candidates that are stored and still in the
\* remote folder.
C18_Witness ==
    /\ kind = "delete" /\ outcome = "previewed"
    /\ Range(uids) \subseteq Stored(emails) \cap remote

\* C19: when a sync run stopped after its listing is followed, with no remote
\* change (the folder lists the same uids and serves again every record it
\* served to the stopped run), by a run of the same mode that completes, the
\* store holds what a single run from the first run's start would hold (the
\* rows it started from and the records parsed) and last_uid is that run's
\* cursor, the largest uid enumerated.
C19_RerunAfterInterruptEqualsOneRun ==
    (SyncReturned /\ prev.how = "interrupted" /\ prev.inc = incremental
       /\ prev.uids # <<>> /\ prev.parsed \subseteq run.parsed)
        => /\ uids = prev.uids
           /\ Stored(emails) = prev.start \cup run.parsed
           /\ last_uid = update_sync_state(run.cursor0, MaxOf(Range(prev.uids)))

\* C19 witness: such a rerun, after a stopped run that had already stored a
\* record.
C19_Witness ==
    /\ SyncReturned /\ prev.how = "interrupted" /\ prev.inc = incremental
    /\ prev.uids # <<>> /\ prev.parsed \subseteq run.parsed
    /\ run.start # prev.start

\* C20: every sync run that returns has updated sync_state exactly once,
\* also a run that found no uid to fetch.
C20_CursorUpdatedOncePerRun == SyncReturned => run.writes = 1

\* C21: after a sync run that returned with every enumerated uid retrieved and
\* normalized (so every chunk request succeeded and every record was handed to
\* the store), the cursor is the largest enumerated uid and the store holds a
\* row for each enumerated uid; started from an empty store it holds exactly
\* those rows.
C21_FullSuccessSetsCursorAndStore ==
    (SyncReturned /\ uids # <<>> /\ run.parsed = Range(uids))
        => /\ last_uid = MaxOf(Range(uids))
           /\ Range(uids) \subseteq Stored(emails)
           /\ (run.start = {} => Stored(emails) = Range(uids))

\* The scenario of the claim: cursor 0, empty store, every remote uid listed,
\* retrieved and stored.
C21_Witness ==
    /\ SyncReturned /\ run.cursor0 = 0 /\ run.start = {}
    /\ Range(uids) = UIDs /\ run.parsed = UIDs
    /\ last_uid = MaxUid /\ Stored(emails) = UIDs

\* C22: once a sync run has enumerated, the uids it requests are, in full
\* mode, every uid of the remote folder that has no tombstone, whatever the
\* cursor; in incremental mode, the remote uids above the cursor the run
\* started with that have no tombstone. Every request is a part of that list,
\* and when the loop is over the requests cover all of it.
C22_RequestedUids ==
    (kind = "sync" /\ pc \in {"fetch", "flush", "cursor"})
        => /\ Range(uids) =
                (IF incremental THEN {u \in remote : u > run.cursor0}
                 ELSE remote) \ deleted_uids
           /\ \A k \in 1..Len(requests) : Range(requests[k]) \subseteq Range(uids)
           /\ (pc # "fetch" => Range(Concat(requests)) = Range(uids))

\* A full resync with a cursor above zero and a tombstone, that has requested
\* a uid not above its cursor.
C22_Witness ==
    /\ kind = "sync" /\ ~incremental /\ pc = "flush"
    /\ run.cursor0 > 0 /\ deleted_uids # {}
    /\ \E u \in Range(Concat(requests)) : u <= run.cursor0

\* C23: a step of a sync run in which opening the session or listing the uids
\* raises ends the run and leaves the stored records, the cursor and the
\* tombstones as they were; the run has no uid list and has issued no retrieval
\* request.
C23_FailedOpenOrListingChangesNothing ==
    [][(kind = "sync" /\ pc \in {"connect", "enumerate"} /\ outcome' = "raised")
          => /\ UNCHANGED <<emails, deleted_uids, last_uid>>
             /\ pc' = "done"
             /\ uids' = <<>> /\ requests' = <<>> /\ batch_emails' = <<>>]_vars

\* A sync run that raised before it had a uid list, with records, a cursor and
\* a tombstone in the store and messages on the server.
C23_Witness ==
    /\ kind = "sync" /\ pc = "done" /\ outcome = "raised" /\ uids = <<>>
    /\ remote # {} /\ run.start # {} /\ Stored(emails) = run.start
    /\ last_uid > 0 /\ last_uid = run.cursor0 /\ deleted_uids # {}

\* The uids of the records parsed and not yet inserted.
Pending == {batch_emails[k].uid : k \in 1..Len(batch_emails)}

\* C24: in a sync run, a record that fails normalization is not stored by the
\* run and adds exactly one to the error count; every other record of the same
\* chunk is normalized and is either in the store or in the pending batch
\* while the run is in its with block, and is in the store when the run
\* returns.
C24_BadRecordSkippedRestProceeds ==
    (kind = "sync" /\ pc \in {"fetch", "flush", "cursor", "done"})
        => /\ stats.errors = Cardinality(run.bad)
           /\ run.bad \cap run.parsed = {}
           /\ run.bad \cap Stored(emails) \subseteq run.start
           /\ (pc # "done" => run.parsed \subseteq Stored(emails) \cup Pending)
           /\ (outcome = "returned" => run.parsed \subseteq Stored(emails))

\* A returned run of one chunk in which one record failed normalization and
\* another was stored.
C24_Witness ==
    /\ SyncReturned /\ Len(requests) = 1 /\ run.start = {}
    /\ run.bad # {} /\ run.parsed # {} /\ stats.errors = 1
    /\ Stored(emails) = run.parsed

\* C25: no step of a sync run changes the messages of the remote folder or
\* their \Seen flags, over any number of runs; the chunk requests of a run are,
\* in order, consecutive non-empty parts of the uid list, so that no uid is
\* requested twice, and after the loop they are the whole list in the number
\* of requests the batch size gives.
C25_SyncLeavesRemoteUnchanged ==
    /\ [][(kind = "sync" \/ kind' = "sync") => UNCHANGED <<remote, seen>>]_vars
    /\ []((kind = "sync" /\ pc \in {"fetch", "flush", "cursor", "done"})
            => /\ \A k \in 1..Len(requests) : requests[k] # <<>>
               /\ Len(Concat(requests)) <= Len(uids)
               /\ Concat(requests) = SubSeq(uids, 1, Len(Concat(requests)))
               /\ (pc \in {"flush", "cursor"}
                     => /\ Concat(requests) = uids
                        /\ Len(requests) = Ceil(Len(uids), batch_size)))

\* A second sync run in a row that has retrieved two chunks, with the folder
\* and its flags as they were.
C25_Witness ==
    /\ SyncReturned /\ prev.how = "returned" /\ prev.uids # <<>>
    /\ Len(requests) = 2 /\ failed = {}
    /\ remote = UIDs /\ seen = {}

\* C26: while a run is inside its with block and between two client calls, the
\* folder is selected read-only: the session is read-write only inside
\* delete_messages, and every listing and retrieval request of a sync run is
\* issued on a read-only folder.
C26_ReadWriteOnlyInsideScope ==
    pc \in {"enumerate", "fetch", "flush", "cursor", "d_batch"}
        => selected = "ro"

\* The positions of a run inside its with block, the session opened.
InWithBlock == pc \in {"enumerate", "fetch", "flush", "cursor", "d_batch"}

\* C27: a run is inside its with block only with an open session, and every
\* step that takes a sync or a deletion run out of the block, by return, by an
\* exception or by an interrupt, leaves the client with no connection; a
\* finished run still holds a connection only when its open itself failed,
\* before any request.
C27_SessionClosedOnEveryExit ==
    /\ [](InWithBlock => conn = "open")
    /\ [][(InWithBlock /\ pc' = "done")
            => /\ conn' = "none" /\ selected' = "none"
               /\ outcome' \in {"returned", "raised", "interrupted"}]_vars
    /\ []((pc = "done" /\ conn # "none")
            => outcome = "raised" /\ requests = <<>> /\ i = 0 /\ lb = NoBatch)

\* A sync run that opened its session, had a chunk request refused and ended
\* with the session closed.
C27_Witness ==
    /\ kind = "sync" /\ pc = "done" /\ outcome = "raised"
    /\ failed # {} /\ conn = "none"

\* Strictly ascending.
Ascending(s) == \A j \in 1..Len(s), k \in 1..Len(s) : j < k => s[j] < s[k]

\* C28: search_all returns every uid of the server's reply, once each, in
\* ascending order; search_since_uid(c) returns, in ascending order, exactly
\* the uids of the reply that are strictly greater than c.
C28_ListingsSortedAndStrict ==
    /\ client.op = "search_all"
         => /\ Ascending(client.result)
            /\ Range(client.result) = Range(client.reply)
            /\ Len(client.result) = Len(client.reply)
    /\ client.op = "search_since_uid"
         => /\ Ascending(client.result)
            /\ Range(client.result) = {u \in Range(client.reply) : u > client.arg}
            /\ client.result =
                 SelectSeq(search_all(client.reply), LAMBDA u : u > client.arg)

\* search_since_uid on a reply that is not in ascending order, with a cursor
\* that is one of its uids and a uid above it.
C28_Witness ==
    /\ client.op = "search_since_uid"
    /\ ~Ascending(client.reply)
    /\ client.arg \in Range(client.reply)
    /\ client.result # <<>>

\* C29: the retriever pauses after a chunk exactly when another chunk
\* follows: once k chunks are requested and none is left there have been k-1
\* pauses, the j-th of them after the j-th request and before the next, and
\* none for an empty list or a single chunk.
C29_PausesBetweenChunksOnly ==
    pc \in {"chunking", "exhausted"}
        => LET k == Len(requests)
               n == IF k > 0 /\ i >= Len(uids) THEN k - 1 ELSE k
           IN  pauses = [j \in 1..n |-> j]

\* A list retrieved in three chunks with two pauses.
C29_Witness ==
    /\ pc = "exhausted" /\ Len(requests) = 3
    /\ pauses = <<1, 2>>

\* The positions of the tuples of a response whose metadata has a UID token.
Keyed(d) == {k \in 1..Len(d) : d[k].kind = "tuple" /\ d[k].metadata.uid # <<>>}

\* C30: _parse_fetch_response returns a result for every response: it holds
\* one entry for each uid named by a UID token of a tuple, None, b")" and other
\* non-tuple elements and tuples without a UID token adding nothing and
\* removing nothing; the entry of a uid has the headers and size of the last
\* tuple naming it, the size being 0 when that tuple has no size token.
C30_ParsingSkipsBadElements ==
    client.op = "parse_fetch_response"
        => LET d == client.data
               r == client.parsed
           IN  /\ DOMAIN r = {d[k].metadata.uid[1] : k \in Keyed(d)}
               /\ \A k \in Keyed(d) :
                    (\A j \in Keyed(d) :
                        d[j].metadata.uid = d[k].metadata.uid => j <= k)
                    => /\ r[d[k].metadata.uid[1]].headers = d[k].headers
                       /\ r[d[k].metadata.uid[1]].size =
                            (IF d[k].metadata.size = <<>> THEN 0
                             ELSE d[k].metadata.size[1])

\* A response with a delimiter, a tuple without a UID token and a tuple with
\* a UID token and no size token: one record is returned, with size 0.
C30_Witness ==
    /\ client.op = "parse_fetch_response"
    /\ \E k \in 1..Len(client.data) : client.data[k].kind \in {"none", "paren"}
    /\ \E k \in 1..Len(client.data) :
         client.data[k].kind = "tuple" /\ client.data[k].metadata.uid = <<>>
    /\ \E k \in Keyed(client.data) : client.data[k].metadata.size = <<>>
    /\ \E u \in UIDs : DOMAIN client.parsed = {u} /\ client.parsed[u].size = 0

\* The positions of the input whose Date header is missing or is no date.
BadDates == {k \in 1..Len(norm.input) : norm.input[k].date # "rfc2822"}

\* C31: once the records of a response have gone through normalization and
\* the insert, every record whose Date header is missing or unparseable, and
\* that is otherwise well formed, has a stored row with date_parsed NULL, and
\* the error count is the number of records that failed for another reason.
C31_BadDateStillStored ==
    norm.pc = "done"
        => /\ \A k \in BadDates :
                norm.input[k].mid = "ascii"
                  => \E j \in 1..Len(norm.stored) :
                        /\ norm.stored[j].uid = k
                        /\ norm.stored[j].date_parsed = <<>>
           /\ norm.errors =
                Cardinality({k \in 1..Len(norm.input) : norm.input[k].mid # "ascii"})
           /\ norm.outcome = "returned"

\* C32: in every state of every sequence of sync runs and deletion runs, no
\* uid has both a stored row and a tombstone.
C32_StoredAndTombstonesDisjoint == Stored(emails) \cap deleted_uids = {}

\* A full resync has returned with rows in the store while the server still
\* lists a tombstoned uid.
C32_Witness ==
    /\ SyncReturned /\ ~incremental /\ requests # <<>>
    /\ Stored(emails) # {}
    /\ deleted_uids \cap remote # {}

\* C33: the cursor changes only in the step that ends a sync run by its
\* return, with every record the run parsed already in the store and no
\* insert left to do; while a sync run is under way, and after it aborted or
\* was interrupted, the cursor has the value it had before the run.
C33_CursorWrittenLast ==
    /\ [][last_uid' # last_uid
            => /\ kind = "sync" /\ pc = "cursor"
               /\ pc' = "done" /\ outcome' = "returned"
               /\ run.parsed \subseteq Stored(emails)
               /\ UNCHANGED emails]_vars
    /\ []((kind = "sync" /\ (InWithBlock \/ pc = "connect"
                             \/ outcome \in {"raised", "interrupted"}))
            => last_uid = run.cursor0)

\* A sync run that stored every record of a list reaching above the cursor
\* and then raised at the STATUS request: the cursor is the one it began with.
C33_Witness ==
    /\ kind = "sync" /\ pc = "done" /\ outcome = "raised"
    /\ failed = {} /\ uids # <<>> /\ Concat(requests) = uids
    /\ run.parsed = Range(uids) /\ Range(uids) \subseteq Stored(emails)
    /\ last_uid = run.cursor0 /\ MaxOf(Range(uids)) > last_uid

\* The order of the remote steps of a deletion batch.
StepOrder == <<"select_rw", "store", "expunge", "select_ro">>

\* C34: the commands delete_messages has sent for a batch are, in order, the
\* first of: select read-write, set the \Deleted flag, purge, select
\* read-only; each is sent only after the one before it was answered without
\* an error, so the purge is sent only after the flag step was answered OK.
C34_RemoteStepsInOrder ==
    DeleteBatchDone
        => /\ Len(lb.log) <= Len(StepOrder)
           /\ \A k \in 1..Len(lb.log) : lb.log[k].cmd = StepOrder[k]
           /\ \A k \in 1..Len(lb.log) :
                /\ lb.log[k].cmd = "store" => lb.log[k - 1] = Cmd("select_rw", "OK")
                /\ lb.log[k].cmd = "expunge" => lb.log[k - 1] = Cmd("store", "OK")
                /\ lb.log[k].cmd = "select_ro"
                     => lb.log[k - 1].status \in {"OK", "NO"}

\* A batch whose flag step was refused: the purge was not sent.
C34_Witness ==
    /\ kind = "delete" /\ lb.uids # {}
    /\ lb.log = <<Cmd("select_rw", "OK"), Cmd("store", "NO")>>

\* The candidates of the batches of a deletion run that did not raise.
Counted == UNION {Range(requests[k]) : k \in (1..Len(requests)) \ failed}

C36_RunsTerminate ==
    /\ (pc \in {"connect", "enumerate", "fetch", "flush", "cursor", "d_batch"})
          ~> (pc = "done")
    /\ [][(requests' # requests /\ pc # "done")
            => /\ i < Len(uids) /\ (i' > i \/ pc' = "done")
               /\ requests' = Append(requests, chunk(uids, i, batch_size))]_vars
    /\ [](\A j \in 1..Len(requests), k \in 1..Len(requests) :
            j # k => Range(requests[j]) \cap Range(requests[k]) = {})

\* A run ended after as many chunks as the uid universe allows.
C36_Witness ==
    /\ pc = "done" /\ outcome = "returned" /\ kind \in {"sync", "delete"}
    /\ Len(requests) = MaxUid /\ i >= Len(uids)

====
